---- MODULE Spec2Model ----
(***************************************************************************)
(* shplit: the session controller of a terminal split timer.               *)
(*                                                                         *)
(* The model follows src/src/main.rs (main, App::default, App::load_run,   *)
(* run_app, ui) and src/src/config.rs (TomlConfig::load / save).  The      *)
(* process is one thread; pc is its position in main / run_app.            *)
(*                                                                         *)
(* Environment: the file system, the terminal and the file dialog.  A      *)
(* file's content is read when a handler looks at it, so each handler      *)
(* draws the content of the path it is given from Files; within one        *)
(* handler the file does not change.  The timing engine (livesplit) is a   *)
(* library: only its phase, its current split index and the duration of    *)
(* the attempt are modelled.                                               *)
(* config_path() is taken to resolve (the platform has a config            *)
(* directory), and writing to stdout is taken not to fail.                 *)
(***************************************************************************)
EXTENDS Integers, Sequences, FiniteSets, TLC

VARIABLES
    pc,          \* position of the process in main / run_app
    raw,         \* terminal raw mode is enabled
    res,         \* what run_app returned: "none" (not yet), "ok", "err"
    exit,        \* how the process ended: "none", "ok", "err", "panic"
    storage,     \* the config file on disk
    config,      \* App.config
    timer,       \* App.timer
    table_state, \* App.table_state (the selected row)
    pending,     \* events waiting in the terminal's input buffer
    frame,       \* the frame most recently drawn
    last         \* history: what the most recent step did

vars == <<pc, raw, res, exit, storage, config, timer, table_state, pending, frame, last>>

----------------------------------------------------------------------------
(* Bounds *)

\* the largest number of segments in a run file
MaxSegs == 2

\* the largest number of unread events in the terminal's input buffer
MaxPending == 2

----------------------------------------------------------------------------
(* Paths and files *)

\* Option::None of config.split_file
NoPath == "<none>"

\* paths that are valid UTF-8: pasted text and the config's String are always such
Utf8Paths == {"a.lss", "b.lss"}

\* a path whose bytes are not valid UTF-8 (only the file dialog can produce one)
NonUtf8Path == "<non-utf8>.lss"

Paths == Utf8Paths \cup {NonUtf8Path}

\* What a handler finds at a path:
\*   missing     try_exists() = Ok(false)
\*   denied      try_exists() = Err(_): existence cannot be determined
\*   unreadable  the file exists and std::fs::read fails
\*   malformed   the file is read and parse_and_fix rejects it
\*   run         the file parses to a run of nsegs segments; Timer::new
\*               rejects an empty run (nsegs = 0)
Files ==
    {[kind |-> k, nsegs |-> 0] : k \in {"missing", "denied", "unreadable", "malformed"}}
        \cup {[kind |-> "run", nsegs |-> n] : n \in 0..MaxSegs}

NoFile == [kind |-> "none", nsegs |-> 0]

\* path.try_exists().ok() == Some(true)
Exists(file) == file.kind \notin {"missing", "denied"}

\* a file whose load succeeds
Valid(file) == file.kind = "run" /\ file.nsegs >= 1

----------------------------------------------------------------------------
(* The timing engine: livesplit::Timer *)

\* Option::None of Timer::current_split_index
NoIndex == -1

\* nothing has been drawn yet
NoFrame ==
    [view |-> "none", highlighted |-> NoIndex, style |-> "none", phase |-> "none",
     duration |-> 0, timer_text |-> <<>>]

\* App.timer = None
NoTimer == [present |-> FALSE, path |-> NoPath, nsegs |-> 0, phase |-> "NotRunning", idx |-> NoIndex]

\* Timer::new(run): a timer that has not been started
TimerNew(path, n) ==
    [present |-> TRUE, path |-> path, nsegs |-> n, phase |-> "NotRunning", idx |-> NoIndex]

\* Timer::split: records the current segment's split and advances
Split(t) ==
    IF t.phase = "Running"
    THEN [t EXCEPT !.idx = t.idx + 1,
                   !.phase = IF t.idx + 1 = t.nsegs THEN "Ended" ELSE "Running"]
    ELSE t

\* Timer::split_or_start
SplitOrStart(t) ==
    IF t.phase = "NotRunning"
    THEN [t EXCEPT !.phase = "Running", !.idx = 0]
    ELSE Split(t)

\* Timer::current_split_index: none when not started and when finished
CurrentSplitIndex(t) == IF t.phase = "Running" THEN t.idx ELSE NoIndex

\* Timer::current_attempt_duration, in milliseconds, at the times a frame may
\* be drawn: zero before the start, any duration afterwards
AttemptDurations(t) == IF t.phase = "NotRunning" THEN {0} ELSE {0, 999, 3723004}

\* Timer::current_split().is_some()
HasCurrentSplit(t) == t.idx # NoIndex /\ t.idx < t.nsegs

----------------------------------------------------------------------------
(* Config store: src/src/config.rs *)

\* Config::default()
DefaultConfig == [split_file |-> NoPath]

StorageMissing == [state |-> "missing", split_file |-> NoPath]
StorageCorrupt == [state |-> "corrupt", split_file |-> NoPath]
Stored(cfg) == [state |-> "ok", split_file |-> cfg.split_file]

Storages ==
    {StorageMissing, StorageCorrupt}
        \cup {Stored([split_file |-> p]) : p \in Utf8Paths \cup {NoPath}}

\* Config::load().unwrap_or_default()
ConfigLoad(st) ==
    IF st.state = "ok" THEN [split_file |-> st.split_file] ELSE DefaultConfig

\* How a save can end: create_dir_all fails, File::create fails, write_all
\* fails after the file was truncated, or all three succeed.
SaveOutcomes == {"ok", "err_dir", "err_create", "err_write"}

\* The config file after TomlConfig::save ended with outcome o.  A failed
\* write leaves the truncated file: empty (it parses as split_file = None)
\* or a prefix that does not parse.
SaveResults(st, cfg, o) ==
    CASE o = "ok" -> {Stored(cfg)}
      [] o = "err_write" -> {Stored(DefaultConfig), StorageCorrupt}
      [] OTHER -> {st}

----------------------------------------------------------------------------
(* App::load_run *)

\* load_run with the assignment of config.split_file left out
LoadRunKeepsConfig(cfg, tm, path, file) ==
    IF file.kind = "denied" THEN [res |-> "err", config |-> cfg, timer |-> tm]
    ELSE IF file.kind = "missing" THEN [res |-> "err", config |-> cfg, timer |-> tm]
    ELSE IF path = NonUtf8Path THEN [res |-> "panic", config |-> cfg, timer |-> tm]
    ELSE IF Valid(file)
         THEN [res |-> "ok", config |-> cfg, timer |-> TimerNew(path, file.nsegs)]
         ELSE [res |-> "err", config |-> cfg, timer |-> tm]

\* load_run keeping the timer in place when the path loaded is its own
LoadRunKeepsSameRun(cfg, tm, path, file) ==
    IF file.kind = "denied" THEN [res |-> "err", config |-> cfg, timer |-> tm]
    ELSE IF file.kind = "missing" THEN [res |-> "err", config |-> cfg, timer |-> tm]
    ELSE IF path = NonUtf8Path THEN [res |-> "panic", config |-> cfg, timer |-> tm]
    ELSE LET cfg2 == [cfg EXCEPT !.split_file = path]
         IN  IF Valid(file)
             THEN [res |-> "ok", config |-> cfg2,
                   timer |-> IF tm.present /\ tm.path = path /\ tm.nsegs = file.nsegs
                             THEN tm
                             ELSE TimerNew(path, file.nsegs)]
             ELSE [res |-> "err", config |-> cfg2, timer |-> tm]

\* load_run dropping the timer in place before it reads and parses the file
LoadRunClearsTimer(cfg, tm, path, file) ==
    IF file.kind = "denied" THEN [res |-> "err", config |-> cfg, timer |-> tm]
    ELSE IF file.kind = "missing" THEN [res |-> "err", config |-> cfg, timer |-> tm]
    ELSE IF path = NonUtf8Path THEN [res |-> "panic", config |-> cfg, timer |-> tm]
    ELSE LET cfg2 == [cfg EXCEPT !.split_file = path]
         IN  IF Valid(file)
             THEN [res |-> "ok", config |-> cfg2, timer |-> TimerNew(path, file.nsegs)]
             ELSE [res |-> "err", config |-> cfg2, timer |-> NoTimer]

\* The result of load_run(path) on an app with config cfg and timer tm, when
\* the path holds file: res is "ok", "err" or "panic" (to_str().unwrap() on
\* a path that is not UTF-8).
LoadRun(cfg, tm, path, file) ==
    IF file.kind = "denied" THEN [res |-> "err", config |-> cfg, timer |-> tm]
    ELSE IF file.kind = "missing" THEN [res |-> "err", config |-> cfg, timer |-> tm]
    ELSE IF path = NonUtf8Path THEN [res |-> "panic", config |-> cfg, timer |-> tm]
    ELSE LET cfg2 == [cfg EXCEPT !.split_file = path]
         IN  IF Valid(file)
             THEN [res |-> "ok", config |-> cfg2, timer |-> TimerNew(path, file.nsegs)]
             ELSE [res |-> "err", config |-> cfg2, timer |-> tm]

----------------------------------------------------------------------------
(* History of the most recent step: the event handled (ev), the path and  *)
(* the file a load looked at, the dialog's answer, how load_run and save   *)
(* ended ("none" when not called), the number of split_or_start calls, and *)
(* the phase and the path of the timer the handler found ("none" and       *)
(* NoPath when there was none).                                            *)

Step(ev) ==
    [ev |-> ev, path |-> NoPath, file |-> NoFile, dialog |-> "none",
     load |-> "none", save |-> "none", splits |-> 0,
     phase0 |-> "none", path0 |-> NoPath]

\* the history of an event handled with timer tm in place
EventOn(ev, tm) ==
    [Step(ev) EXCEPT !.phase0 = IF tm.present THEN tm.phase ELSE "none",
                     !.path0 = tm.path]

Panic ==
    /\ pc' = "panicked"
    /\ exit' = "panic"

----------------------------------------------------------------------------
(* main: terminal setup *)

Init ==
    /\ pc = "enable_raw"
    /\ raw = FALSE
    /\ res = "none"
    /\ exit = "none"
    /\ storage \in Storages
    /\ config = DefaultConfig
    /\ timer = NoTimer
    /\ table_state = NoIndex
    /\ pending = 0
    /\ frame = NoFrame
    /\ last = Step("Init")

\* The user types, pastes, moves the mouse or resizes the window.
Arrive ==
    /\ pc \notin {"exited", "panicked"}
    /\ pending < MaxPending
    /\ pending' = pending + 1
    /\ UNCHANGED <<frame, pc, raw, res, exit, storage, config, timer, table_state, last>>

\* enable_raw_mode()?
EnableRawMode ==
    /\ pc = "enable_raw"
    /\ \E ok \in BOOLEAN :
        IF ok
        THEN raw' = TRUE /\ pc' = "execute_enter" /\ exit' = exit
        ELSE raw' = raw /\ pc' = "exited" /\ exit' = "err"
    /\ last' = Step("EnableRaw")
    /\ UNCHANGED <<frame, res, storage, config, timer, table_state, pending>>

\* execute!(stdout, EnterAlternateScreen, EnableMouseCapture, EnableBracketedPaste)?
ExecuteEnter ==
    /\ pc = "execute_enter"
    /\ \E ok \in BOOLEAN :
        IF ok
        THEN pc' = "terminal_new" /\ exit' = exit
        ELSE pc' = "exited" /\ exit' = "err"
    /\ last' = Step("ExecuteEnter")
    /\ UNCHANGED <<frame, raw, res, storage, config, timer, table_state, pending>>

\* Terminal::new(backend)?
TerminalNew ==
    /\ pc = "terminal_new"
    /\ \E ok \in BOOLEAN :
        IF ok
        THEN pc' = "app_default" /\ exit' = exit
        ELSE pc' = "exited" /\ exit' = "err"
    /\ last' = Step("TerminalNew")
    /\ UNCHANGED <<frame, raw, res, storage, config, timer, table_state, pending>>

\* App::default() with the load's result unwrapped instead of ignored
AppDefaultUnwrap ==
    /\ pc = "app_default"
    /\ LET cfg == ConfigLoad(storage)
       IN  IF cfg.split_file = NoPath
           THEN /\ config' = cfg
                /\ timer' = NoTimer
                /\ last' = Step("Startup")
                /\ pc' = "draw"
                /\ exit' = exit
           ELSE \E file \in Files :
                LET r == LoadRun(cfg, NoTimer, cfg.split_file, file)
                IN  /\ config' = r.config
                    /\ timer' = r.timer
                    /\ last' = [Step("Startup") EXCEPT !.path = cfg.split_file,
                                                       !.file = file,
                                                       !.load = r.res]
                    /\ IF r.res = "ok" THEN pc' = "draw" /\ exit' = exit ELSE Panic
    /\ table_state' = NoIndex
    /\ UNCHANGED <<frame, raw, res, storage, pending>>

\* App::default(): load the config, then load its split_file, ignoring failure
AppDefault ==
    /\ pc = "app_default"
    /\ LET cfg == ConfigLoad(storage)
       IN  IF cfg.split_file = NoPath
           THEN /\ config' = cfg
                /\ timer' = NoTimer
                /\ last' = Step("Startup")
           ELSE \E file \in Files :
                LET r == LoadRun(cfg, NoTimer, cfg.split_file, file)
                IN  /\ config' = r.config
                    /\ timer' = r.timer
                    /\ last' = [Step("Startup") EXCEPT !.path = cfg.split_file,
                                                       !.file = file,
                                                       !.load = r.res]
    /\ table_state' = NoIndex
    /\ pc' = "draw"
    /\ UNCHANGED <<frame, raw, res, exit, storage, pending>>

----------------------------------------------------------------------------
(* ui *)

\* ui without the call of table_state.select
UiNoSelect(tm, sel) == sel

\* The selection after ui(f, app): the placeholder view returns before the
\* table is touched; otherwise the selection is the engine's current index.
Ui(tm, sel) == IF ~tm.present THEN sel ELSE CurrentSplitIndex(tm)

\* Display of a digit
Digit(n) == <<"0", "1", "2", "3", "4", "5", "6", "7", "8", "9">>[n + 1]

\* Display of a non-negative integer: its decimal digits, as characters
RECURSIVE Decimal(_)
Decimal(n) == IF n < 10 THEN <<Digit(n)>> ELSE Decimal(n \div 10) \o <<Digit(n % 10)>>

\* {:0w}: zeros on the left up to a width of w; longer text is left as it is
RECURSIVE PadZero(_, _)
PadZero(text, w) == IF Len(text) >= w THEN text ELSE PadZero(<<"0">> \o text, w)

\* Duration::whole_hours, whole_minutes, whole_seconds, subsec_milliseconds
\* of a duration of d milliseconds
WholeHours(d) == d \div 3600000
WholeMinutes(d) == d \div 60000
WholeSeconds(d) == d \div 1000
SubsecMilliseconds(d) == d % 1000

\* timer_text with the minutes and seconds not reduced modulo 60
TimerTextNoMod(d) ==
    PadZero(Decimal(WholeHours(d)), 2) \o <<":">>
        \o PadZero(Decimal(WholeMinutes(d)), 2) \o <<":">>
        \o PadZero(Decimal(WholeSeconds(d)), 2) \o <<".">>
        \o PadZero(Decimal(SubsecMilliseconds(d)), 3)

\* format!("{:02}:{:02}:{:02}.{:03}", ..)
TimerText(d) ==
    PadZero(Decimal(WholeHours(d)), 2) \o <<":">>
        \o PadZero(Decimal(WholeMinutes(d) % 60), 2) \o <<":">>
        \o PadZero(Decimal(WholeSeconds(d) % 60), 2) \o <<".">>
        \o PadZero(Decimal(SubsecMilliseconds(d)), 3)

\* the modifier chosen by whether the run is complete
StyleHintUntilEnded(tm) == IF tm.phase # "Ended" THEN "bold" ELSE "blinking"

\* the paragraph's modifier: bold with a current split, slow blink without
StyleHint(tm) == IF HasCurrentSplit(tm) THEN "bold" ELSE "blinking"

\* What ui renders for timer tm when the attempt has lasted d milliseconds;
\* phase is the timer's phase when the frame was built.
BuildFrame(tm, d) ==
    IF ~tm.present
    THEN [NoFrame EXCEPT !.view = "placeholder"]
    ELSE [view |-> "table",
          highlighted |-> CurrentSplitIndex(tm),
          style |-> StyleHint(tm),
          phase |-> tm.phase,
          duration |-> d,
          timer_text |-> TimerText(d)]

----------------------------------------------------------------------------
(* run_app: one loop iteration is a draw followed by a poll *)

\* terminal.draw(|f| ui(f, &mut app))?
Draw ==
    /\ pc = "draw"
    /\ \E ok \in BOOLEAN :
        IF ok
        THEN /\ table_state' = Ui(timer, table_state)
             /\ \E d \in AttemptDurations(timer) : frame' = BuildFrame(timer, d)
             /\ pc' = "poll"
             /\ res' = res
        ELSE \* the failure comes before or after the closure has run
             /\ table_state' \in {table_state, Ui(timer, table_state)}
             /\ frame' = frame
             /\ pc' = "restore"
             /\ res' = "err"
    /\ last' = Step("Draw")
    /\ UNCHANGED <<raw, exit, storage, config, timer, pending>>

\* crossterm::event::poll(timeout)? or event::read()? fails
PollError ==
    /\ pc = "poll"
    /\ pc' = "restore"
    /\ res' = "err"
    /\ last' = Step("IoError")
    /\ UNCHANGED <<frame, raw, exit, storage, config, timer, table_state, pending>>

\* poll(timeout) returns false: no event within the tick
NoEvent ==
    /\ pc = "poll"
    /\ pending = 0
    /\ pc' = "draw"
    /\ last' = Step("NoEvent")
    /\ UNCHANGED <<frame, raw, res, exit, storage, config, timer, table_state, pending>>

\* Ctrl+C handled like any other key: the loop goes on
KeyCtrlCNoReturn ==
    /\ pc = "poll"
    /\ pending > 0
    /\ pending' = pending - 1
    /\ pc' = "draw"
    /\ last' = Step("CtrlC")
    /\ UNCHANGED <<frame, raw, res, exit, storage, config, timer, table_state>>

\* Key press Ctrl+C: return Ok(())
KeyCtrlC ==
    /\ pc = "poll"
    /\ pending > 0
    /\ pending' = pending - 1
    /\ pc' = "restore"
    /\ res' = "ok"
    /\ last' = Step("CtrlC")
    /\ UNCHANGED <<frame, raw, exit, storage, config, timer, table_state>>

\* the Space arm with a guard of its own: a finished run is not touched
OnSpaceGuarded(tm) ==
    IF tm.present /\ tm.phase # "Ended"
    THEN [timer |-> SplitOrStart(tm), splits |-> 1]
    ELSE [timer |-> tm, splits |-> 0]

\* the Space arm handling one press twice
OnSpaceTwice(tm) ==
    IF tm.present
    THEN [timer |-> SplitOrStart(SplitOrStart(tm)), splits |-> 1]
    ELSE [timer |-> tm, splits |-> 0]

\* The Space arm: the timer afterwards and the number of split_or_start calls
OnSpace(tm) ==
    IF tm.present
    THEN [timer |-> SplitOrStart(tm), splits |-> 1]
    ELSE [timer |-> tm, splits |-> 0]

\* Key press Space
KeySpace ==
    /\ pc = "poll"
    /\ pending > 0
    /\ pending' = pending - 1
    /\ timer' = OnSpace(timer).timer
    /\ last' = [EventOn("Space", timer) EXCEPT !.splits = OnSpace(timer).splits]
    /\ pc' = "draw"
    /\ UNCHANGED <<frame, raw, res, exit, storage, config, table_state>>

\* What the file dialog can answer: Nfd::new() fails, or show() returns
\* Cancel, Err or Ok(path)
DialogResults == {"nfd_err", "cancel", "error", "ok"}

\* Key press Ctrl+O
KeyCtrlO ==
    /\ pc = "poll"
    /\ pending > 0
    /\ pending' = pending - 1
    /\ \E d \in DialogResults :
        IF d # "ok"
        THEN /\ pc' = "draw"
             /\ last' = [EventOn("CtrlO", timer) EXCEPT !.dialog = d]
             /\ UNCHANGED <<exit, storage, config, timer>>
        ELSE \E path \in Paths, file \in Files :
             IF ~Exists(file)
             THEN /\ pc' = "draw"
                  /\ last' = [EventOn("CtrlO", timer) EXCEPT !.dialog = d, !.path = path, !.file = file]
                  /\ UNCHANGED <<exit, storage, config, timer>>
             ELSE LET r == LoadRun(config, timer, path, file)
                  IN  /\ config' = r.config
                      /\ timer' = r.timer
                      /\ IF r.res = "panic"
                         THEN /\ Panic
                              /\ storage' = storage
                              /\ last' = [EventOn("CtrlO", timer) EXCEPT !.dialog = d, !.path = path,
                                                               !.file = file, !.load = r.res]
                         ELSE \* app.load_run(..).ok(); app.config.save().unwrap();
                              \E o \in SaveOutcomes :
                                 /\ storage' \in SaveResults(storage, r.config, o)
                                 /\ last' = [EventOn("CtrlO", timer) EXCEPT !.dialog = d, !.path = path,
                                                                  !.file = file, !.load = r.res,
                                                                  !.save = o]
                                 /\ IF o = "ok"
                                    THEN pc' = "draw" /\ exit' = exit
                                    ELSE Panic
    /\ UNCHANGED <<frame, raw, res, table_state>>

\* Event::Paste with the try_exists check left out
PasteNoCheck ==
    /\ pc = "poll"
    /\ pending > 0
    /\ pending' = pending - 1
    /\ \E path \in Utf8Paths, file \in Files :
        LET r == LoadRun(config, timer, path, file)
        IN  /\ config' = r.config
            /\ timer' = r.timer
            /\ IF r.res # "ok"
               THEN /\ Panic
                    /\ storage' = storage
                    /\ last' = [EventOn("Paste", timer) EXCEPT !.path = path, !.file = file,
                                                               !.load = r.res]
               ELSE \E o \in SaveOutcomes :
                       /\ storage' \in SaveResults(storage, r.config, o)
                       /\ last' = [EventOn("Paste", timer) EXCEPT !.path = path, !.file = file,
                                                                  !.load = r.res, !.save = o]
                       /\ pc' = "draw"
                       /\ exit' = exit
    /\ UNCHANGED <<frame, raw, res, table_state>>

\* Event::Paste(data)
Paste ==
    /\ pc = "poll"
    /\ pending > 0
    /\ pending' = pending - 1
    /\ \E path \in Utf8Paths, file \in Files :
        IF ~Exists(file)
        THEN /\ pc' = "draw"
             /\ last' = [EventOn("Paste", timer) EXCEPT !.path = path, !.file = file]
             /\ UNCHANGED <<exit, storage, config, timer>>
        ELSE LET r == LoadRun(config, timer, path, file)
             IN  /\ config' = r.config
                 /\ timer' = r.timer
                 /\ IF r.res # "ok"
                    THEN \* app.load_run(path).unwrap()
                         /\ Panic
                         /\ storage' = storage
                         /\ last' = [EventOn("Paste", timer) EXCEPT !.path = path, !.file = file,
                                                          !.load = r.res]
                    ELSE \* app.config.save().ok()
                         \E o \in SaveOutcomes :
                            /\ storage' \in SaveResults(storage, r.config, o)
                            /\ last' = [EventOn("Paste", timer) EXCEPT !.path = path, !.file = file,
                                                             !.load = r.res, !.save = o]
                            /\ pc' = "draw"
                            /\ exit' = exit
    /\ UNCHANGED <<frame, raw, res, table_state>>

\* Events no arm handles: a key release or repeat (Ctrl+C, Space and Ctrl+O
\* included), any other key, mouse, resize, focus
OtherEvents == {"KeyRelease", "KeyRepeat", "OtherKey", "Mouse", "Resize", "Focus"}

\* an ignored event followed by another poll, without the redraw
OtherEventNoRedraw ==
    /\ pc = "poll"
    /\ pending > 0
    /\ pending' = pending - 1
    /\ \E e \in OtherEvents : last' = Step(e)
    /\ pc' = "poll"
    /\ UNCHANGED <<frame, raw, res, exit, storage, config, timer, table_state>>

\* the key arm without the check of key.kind: a release of Space splits
OtherEventAsPress ==
    /\ pc = "poll"
    /\ pending > 0
    /\ pending' = pending - 1
    /\ \E e \in OtherEvents :
        /\ last' = Step(e)
        /\ timer' = IF e = "KeyRelease" THEN OnSpace(timer).timer ELSE timer
    /\ pc' = "draw"
    /\ UNCHANGED <<frame, raw, res, exit, storage, config, table_state>>

OtherEvent ==
    /\ pc = "poll"
    /\ pending > 0
    /\ pending' = pending - 1
    /\ \E e \in OtherEvents : last' = Step(e)
    /\ pc' = "draw"
    /\ UNCHANGED <<frame, raw, res, exit, storage, config, timer, table_state>>

----------------------------------------------------------------------------
(* main: after run_app returned *)

\* disable_raw_mode()?; execute!(.., LeaveAlternateScreen, ..)?; print the
\* loop's error if any; Ok(())
Restore ==
    /\ pc = "restore"
    /\ \E o \in {"ok", "disable_err", "leave_err"} :
        /\ raw' = IF o = "disable_err" THEN raw ELSE FALSE
        /\ exit' = IF o = "ok" THEN "ok" ELSE "err"
    /\ pc' = "exited"
    /\ last' = Step("Restore")
    /\ UNCHANGED <<frame, res, storage, config, timer, table_state, pending>>

----------------------------------------------------------------------------

Next ==
    \/ Arrive
    \/ EnableRawMode
    \/ ExecuteEnter
    \/ TerminalNew
    \/ AppDefault
    \/ Draw
    \/ PollError
    \/ NoEvent
    \/ KeyCtrlC
    \/ KeySpace
    \/ KeyCtrlO
    \/ Paste
    \/ OtherEvent
    \/ Restore

Spec == Init /\ [][Next]_vars

----------------------------------------------------------------------------
(* Type invariant *)

TypeOK ==
    /\ pc \in {"enable_raw", "execute_enter", "terminal_new", "app_default",
               "draw", "poll", "restore", "exited", "panicked"}
    /\ raw \in BOOLEAN
    /\ res \in {"none", "ok", "err"}
    /\ exit \in {"none", "ok", "err", "panic"}
    /\ storage \in Storages
    /\ config.split_file \in Utf8Paths \cup {NoPath}
    /\ timer.present \in BOOLEAN
    /\ timer.present => timer.path \in Utf8Paths /\ timer.nsegs \in 1..MaxSegs
    /\ timer.idx \in NoIndex..timer.nsegs
    /\ table_state \in NoIndex..MaxSegs
    /\ pending \in 0..MaxPending

----------------------------------------------------------------------------
(* Steps the claims are about *)

\* this step is App::default
StartupStep == pc = "app_default" /\ pc' # pc

\* this step reads an input event and handles it
EventStep == pc = "poll" /\ pc' # pc /\ last'.ev \notin {"NoEvent", "IoError"}

\* this step is the startup load or an event handler, and it called load_run
LoadStep == (StartupStep \/ EventStep) /\ last'.load # "none"

\* this step is the handler of an input event that called load_run
EventLoadStep == EventStep /\ last'.load # "none"

\* config.split_file as it was before this step's load: at startup, the value
\* just read from storage
SplitFileBefore ==
    IF pc = "app_default" THEN ConfigLoad(storage).split_file ELSE config.split_file

\* the timer a successful load of last.path installs
Loaded(l) == TimerNew(l.path, l.file.nsegs)

----------------------------------------------------------------------------
(* C1 *)

\* C1: load atomicity. Every load attempt that fails (at startup, by Ctrl+O
\* or by a paste, from NoRun or RunLoaded) leaves the timer and the in-memory
\* config.split_file as they were before the attempt.
C1_LoadAtomicity ==
    [][(LoadStep /\ last'.load = "err")
          => (timer' = timer /\ config'.split_file = SplitFileBefore)]_vars

----------------------------------------------------------------------------
(* C2 *)

\* C2 as stated: every successful load, through any entry point (startup
\* included), replaces the timer, sets config.split_file to the path and
\* attempts a config save, all in the same step.
C2_LoadEffectCoupling ==
    [][(LoadStep /\ last'.load = "ok")
          => /\ timer' = Loaded(last')
             /\ config'.split_file = last'.path
             /\ last'.save # "none"]_vars

\* C2 amended: a successful load by Ctrl+O or by a paste produces all three
\* effects in the same step; the startup reload replaces the timer and leaves
\* config.split_file equal to the path, which is the value storage already
\* holds, and issues no save.
C2_LoadEffectCouplingAmended ==
    [][/\ (EventLoadStep /\ last'.load = "ok")
             => /\ timer' = Loaded(last')
                /\ config'.split_file = last'.path
                /\ last'.save # "none"
       /\ (StartupStep /\ last'.load = "ok")
             => /\ timer' = Loaded(last')
                /\ config'.split_file = last'.path
                /\ last'.save = "none"
                /\ storage' = storage
                /\ storage.state = "ok"
                /\ storage.split_file = last'.path]_vars

\* a paste has loaded b.lss over a running a.lss timer and the save was attempted
C2_Witness ==
    /\ pc = "draw"
    /\ last.ev = "Paste"
    /\ last.load = "ok"
    /\ last.path = "b.lss"
    /\ last.save # "none"
    /\ timer = Loaded(last)
    /\ config.split_file = "b.lss"

----------------------------------------------------------------------------
(* C3 *)

\* C3: a failed load of an existing file, or a cancelled or failed dialog,
\* does not end the event loop: the loop goes on to its next iteration.  (A
\* step whose config save fails is the subject of C4 and is left out here.)
C3_FailuresKeepLoopRunning ==
    [][(/\ EventStep
        /\ \/ last'.load = "err"
           \/ last'.dialog \in {"nfd_err", "cancel", "error"}
        /\ last'.save \in {"none", "ok"})
          => (pc' = "draw" /\ exit' = "none")]_vars

----------------------------------------------------------------------------
(* C4 *)

\* C4: a config save that returns an error, after a Ctrl+O or a paste load,
\* never crashes the session: the loop continues with the timer and config
\* the load produced.  (Stated for the saves that follow a successful load.)
C4_SaveFailureKeepsLoopRunning ==
    [][(EventStep /\ last'.load = "ok" /\ last'.save \notin {"none", "ok"})
          => /\ pc' = "draw"
             /\ exit' = "none"
             /\ timer' = Loaded(last')
             /\ config'.split_file = last'.path]_vars

----------------------------------------------------------------------------
(* C5 *)

\* C5: a config save is attempted only in a step whose load succeeded, so
\* the persisted record never comes to name a file whose load failed.
C5_SaveOnlyAfterSuccessfulLoad ==
    [][((StartupStep \/ EventStep) /\ last'.save # "none")
          => last'.load = "ok"]_vars

----------------------------------------------------------------------------
(* C6 *)

\* C6: config.split_file is the path of the most recent successful load, the
\* value read from storage at startup counting as one: a step changes it only
\* by a successful load, to that load's path; and whenever a timer is present
\* config.split_file names the file the timer was loaded from.
C6_SplitFileIsLastSuccess ==
    [][/\ (StartupStep \/ EventStep)
             => config'.split_file =
                    IF last'.load = "ok" THEN last'.path ELSE SplitFileBefore
       /\ timer'.present => config'.split_file = timer'.path]_vars

----------------------------------------------------------------------------
(* C7 *)

\* C7: quit precedence. A Ctrl+C press read by the loop ends run_app with
\* Ok(()) whatever the timer's state and whatever input is still pending, and
\* changes nothing else; once run_app has returned no event is read (the
\* input buffer is never consumed again) and timer, config and storage stay
\* as they are.
C7_QuitPrecedence ==
    [][/\ (EventStep /\ last'.ev = "CtrlC")
             => /\ pc' = "restore"
                /\ res' = "ok"
                /\ UNCHANGED <<config, timer, table_state, storage>>
       /\ (pc \in {"restore", "exited"})
             => /\ pc' \in {"restore", "exited"}
                /\ pending' >= pending
                /\ UNCHANGED <<res, config, timer, table_state, storage>>]_vars

\* Ctrl+C was read while an attempt was running and more input was pending
C7_Witness ==
    /\ pc = "restore"
    /\ last.ev = "CtrlC"
    /\ res = "ok"
    /\ timer.present
    /\ timer.phase = "Running"
    /\ pending > 0

----------------------------------------------------------------------------
(* C8 *)

\* C8: Space. In NoRun a Space press changes nothing of the application
\* state and the state stays NoRun; in RunLoaded it calls split_or_start
\* exactly once, whatever the timer's phase, the timer stays present with the
\* same run, and config and storage are unchanged with no save issued.
C8_SpaceKey ==
    [][(EventStep /\ last'.ev = "Space")
          => /\ pc' = "draw"
             /\ exit' = "none"
             /\ last'.save = "none"
             /\ last'.load = "none"
             /\ UNCHANGED <<config, storage, table_state>>
             /\ ~timer.present => (timer' = timer /\ last'.splits = 0)
             /\ timer.present
                   => /\ last'.splits = 1
                      /\ timer' = SplitOrStart(timer)
                      /\ timer'.present
                      /\ timer'.path = timer.path
                      /\ timer'.nsegs = timer.nsegs]_vars

\* Space was pressed on a finished run: split_or_start was still called
C8_Witness ==
    /\ pc = "draw"
    /\ last.ev = "Space"
    /\ last.phase0 = "Ended"
    /\ last.splits = 1
    /\ timer.present

----------------------------------------------------------------------------
(* C9 *)

\* the number of Space presses that have taken effect on timer t: 0 when not
\* started, k while segment k is active, N+1 when finished
Progress(t) == IF t.phase = "NotRunning" THEN 0 ELSE t.idx + 1

\* C9: split semantics. A freshly loaded run of N segments is not started;
\* each Space press advances it by exactly one stage through not started,
\* segment 1 active, ..., segment N active, finished (no current split); a
\* press on a finished run leaves the timer unchanged.
C9_SplitSemantics ==
    [][/\ (LoadStep /\ last'.load = "ok")
             => (Progress(timer') = 0 /\ ~HasCurrentSplit(timer'))
       /\ (EventStep /\ last'.ev = "Space" /\ timer.present)
             => /\ Progress(timer) <= timer.nsegs
                   => /\ Progress(timer') = Progress(timer) + 1
                      /\ timer'.phase =
                            IF Progress(timer') = timer.nsegs + 1 THEN "Ended" ELSE "Running"
                      /\ HasCurrentSplit(timer') <=> Progress(timer') <= timer.nsegs
                      /\ HasCurrentSplit(timer') => CurrentSplitIndex(timer') = Progress(timer') - 1
                /\ Progress(timer) = timer.nsegs + 1
                   => (timer' = timer /\ ~HasCurrentSplit(timer'))
                /\ Progress(timer) <= timer.nsegs + 1]_vars

\* a run of the largest size was finished and Space was pressed once more
C9_Witness ==
    /\ pc = "draw"
    /\ last.ev = "Space"
    /\ last.phase0 = "Ended"
    /\ timer.nsegs = MaxSegs
    /\ Progress(timer) = MaxSegs + 1
    /\ ~HasCurrentSplit(timer)

----------------------------------------------------------------------------
(* C10 *)

\* the stored split_file exists and loads
StoredFileLoads ==
    storage.state = "ok" /\ storage.split_file # NoPath /\ Valid(last.file)

----------------------------------------------------------------------------
(* C11 *)

\* C11: every event other than a Ctrl+C press, a Space press, a Ctrl+O press
\* and a paste (key releases and repeats, other keys, mouse, resize, focus) is
\* ignored: timer, config, selection and the persisted record are unchanged,
\* nothing is loaded, saved or split, and the loop goes on.
C11_OtherEventsIgnored ==
    [][(EventStep /\ last'.ev \in OtherEvents)
          => /\ pc' = "draw"
             /\ exit' = "none"
             /\ res' = "none"
             /\ UNCHANGED <<timer, config, storage, table_state>>
             /\ last'.load = "none"
             /\ last'.save = "none"
             /\ last'.splits = 0]_vars

\* a key release was read while an attempt was running
C11_Witness ==
    /\ pc = "draw"
    /\ last.ev = "KeyRelease"
    /\ timer.present
    /\ timer.phase = "Running"

----------------------------------------------------------------------------
(* C12 *)

\* the handler found nothing to load: the dialog could not be created, was
\* cancelled or failed, or the path given does not exist
NothingToLoad(l) ==
    /\ l.ev \in {"CtrlO", "Paste"}
    /\ \/ l.dialog \in {"nfd_err", "cancel", "error"}
       \/ l.path # NoPath /\ ~Exists(l.file)

\* C12: when there is nothing to load (a pasted text that is no existing
\* path, a dialog result that does not exist, a cancelled dialog, a dialog
\* that cannot be created) the event is ignored: load_run and save are not
\* called, timer, config and the persisted record are unchanged, and the loop
\* goes on.
C12_NothingToLoadIgnored ==
    [][(EventStep /\ NothingToLoad(last'))
          => /\ pc' = "draw"
             /\ exit' = "none"
             /\ UNCHANGED <<timer, config, storage>>
             /\ last'.load = "none"
             /\ last'.save = "none"]_vars

\* a path that does not exist was pasted while a run was loaded
C12_Witness ==
    /\ pc = "draw"
    /\ last.ev = "Paste"
    /\ last.path = "b.lss"
    /\ last.file.kind = "missing"
    /\ timer.present
    /\ timer.path = "a.lss"

----------------------------------------------------------------------------
(* The timer text as a function of the attempt's duration *)

\* attempt durations in milliseconds: every combination of these hours,
\* minutes, seconds and milliseconds
Durations ==
    {h * 3600000 + mi * 60000 + sec * 1000 + ms :
        h \in {0, 1, 9, 10, 99, 100, 500}, mi \in {0, 2, 9, 10, 59},
        sec \in {0, 3, 10, 59}, ms \in {0, 4, 10, 99, 100, 999}}

\* a run is loaded and its attempt is under way; no frame has been drawn
InitFormat ==
    /\ pc = "draw"
    /\ raw = TRUE
    /\ res = "none"
    /\ exit = "none"
    /\ storage = Stored([split_file |-> "a.lss"])
    /\ config = [split_file |-> "a.lss"]
    /\ timer = SplitOrStart(TimerNew("a.lss", 1))
    /\ table_state = NoIndex
    /\ pending = 0
    /\ frame = NoFrame
    /\ last = Step("Startup")

\* ui builds the frame when the attempt has lasted d milliseconds
FormatDuration ==
    /\ \E d \in Durations : frame' = BuildFrame(timer, d)
    /\ UNCHANGED <<pc, raw, res, exit, storage, config, timer, table_state, pending, last>>

NextFormat == FormatDuration

SpecFormat == InitFormat /\ [][NextFormat]_vars

----------------------------------------------------------------------------
(* C13 *)

Digits == {Digit(n) : n \in 0..9}

\* the number a text of digits denotes
RECURSIVE Value(_)
Value(text) ==
    IF text = <<>> THEN 0
    ELSE 10 * Value(SubSeq(text, 1, Len(text) - 1))
            + (CHOOSE n \in 0..9 : Digit(n) = text[Len(text)])

AllDigits(text) == \A i \in 1..Len(text) : text[i] \in Digits

\* text is HH:MM:SS.mmm for d milliseconds: the four fields are digits
\* separated by ':', ':' and '.', MM, SS and mmm are exactly 2, 2 and 3 long,
\* HH is 2 long or, from 100 hours on, as long as the number needs, and the
\* fields denote d div 3600000, (d div 60000) mod 60, (d div 1000) mod 60 and
\* d mod 1000.
Renders(text, d) ==
    LET n == Len(text)
        hh == SubSeq(text, 1, n - 10)
        mm == SubSeq(text, n - 8, n - 7)
        ss == SubSeq(text, n - 5, n - 4)
        ms == SubSeq(text, n - 2, n)
    IN  /\ n >= 12
        /\ text[n - 9] = ":"
        /\ text[n - 6] = ":"
        /\ text[n - 3] = "."
        /\ AllDigits(hh) /\ AllDigits(mm) /\ AllDigits(ss) /\ AllDigits(ms)
        /\ Len(hh) > 2 => hh[1] # "0"
        /\ Value(hh) = d \div 3600000
        /\ Value(mm) = (d \div 60000) % 60
        /\ Value(ss) = (d \div 1000) % 60
        /\ Value(ms) = d % 1000

\* C13: for every non-negative attempt duration of d milliseconds the timer
\* text of the frame is HH:MM:SS.mmm, zero-padded to at least 2/2/2/3 digits,
\* and 1 h 2 min 3 s 4 ms renders exactly 01:02:03.004.
C13_TimerText ==
    frame.view = "table"
        => /\ Renders(frame.timer_text, frame.duration)
           /\ frame.duration = 3723004
                 => frame.timer_text
                       = <<"0", "1", ":", "0", "2", ":", "0", "3", ".", "0", "0", "4">>

\* the frame of an attempt that has lasted 1 h 2 min 3 s 4 ms
C13_Witness ==
    /\ frame.view = "table"
    /\ frame.duration = 3723004
    /\ frame.timer_text = <<"0", "1", ":", "0", "2", ":", "0", "3", ".", "0", "0", "4">>

----------------------------------------------------------------------------
(* C14 *)

\* C14: a successful load always installs a fresh timer: whatever timer was
\* in place, the same path's included, and whatever its progress, the timer
\* after the load is the not-started timer of the file loaded, with no
\* current split.
C14_FreshTimer ==
    [][(LoadStep /\ last'.load = "ok")
          => /\ timer' = TimerNew(last'.path, last'.file.nsegs)
             /\ timer'.phase = "NotRunning"
             /\ Progress(timer') = 0
             /\ CurrentSplitIndex(timer') = NoIndex
             /\ ~HasCurrentSplit(timer')]_vars

\* the path of a finished run was loaded again
C14_Witness ==
    /\ pc = "draw"
    /\ last.load = "ok"
    /\ last.path0 = last.path
    /\ last.phase0 = "Ended"
    /\ timer.present
    /\ timer.phase = "NotRunning"

----------------------------------------------------------------------------
(* C15 *)

\* C15: terminal restoration. Whenever the process has ended, raw mode is
\* off: either it was never enabled or it was disabled again before the end,
\* whether the loop returned normally or with an I/O error, a setup step
\* failed after raw mode was enabled, or an event handler failed.
C15_TerminalRestored == exit # "none" => ~raw

----------------------------------------------------------------------------
(* C16 *)

\* C16: event loop ordering. Every iteration draws once and then handles at
\* most one event: an event is read only at the poll that directly follows a
\* draw, one at a time; the poll is reached only through a draw, whose frame
\* shows the timer as it then is; and after the poll, with or without an
\* event and whatever the handler did (a cancelled or failed dialog
\* included), the loop either draws again or has ended.
C16_LoopOrdering ==
    [][/\ (pending' < pending)
             => (pc = "poll" /\ last.ev = "Draw" /\ pending' = pending - 1)
       /\ (pc' = "poll" /\ pc # "poll")
             => /\ pc = "draw"
                /\ last'.ev = "Draw"
                /\ frame' = BuildFrame(timer, frame'.duration)
       /\ (pc = "poll" /\ last' # last)
             => pc' \in {"draw", "restore", "panicked"}
       /\ (pc = "poll" /\ (timer' # timer \/ config' # config \/ storage' # storage))
             => pc' \in {"draw", "panicked"}]_vars

\* a dialog was cancelled with more input pending: the next step is the draw
C16_Witness ==
    /\ pc = "draw"
    /\ last.ev = "CtrlO"
    /\ last.dialog = "cancel"
    /\ pending > 0
    /\ timer.present

----------------------------------------------------------------------------
(* C17 *)

\* C17 as stated: in every frame drawn while a run is loaded the timer text
\* is blinking only once the run is complete and bold before that, the frames
\* of a run that has not been started included.
C17_StyleHint ==
    frame.view = "table"
        => frame.style = IF frame.phase = "Ended" THEN "blinking" ELSE "bold"

\* C17 amended: in every frame drawn while a run is loaded the timer text is
\* bold while the engine reports a current split, that is while an attempt is
\* in progress, and blinking otherwise: once the run is complete and also
\* while the attempt has not been started.
C17_StyleHintAmended ==
    /\ frame.view = "table"
          => frame.style = IF frame.phase = "Running" THEN "bold" ELSE "blinking"
    /\ frame.view # "table" => frame.style = "none"

\* a frame of a loaded run that has not been started: it blinks
C17_Witness ==
    /\ frame.view = "table"
    /\ frame.phase = "NotRunning"
    /\ frame.style = "blinking"

----------------------------------------------------------------------------
(* C18 *)

\* C18: the selection mirrors the engine. After every frame drawn while a run
\* is loaded the table selection, and the row the frame highlights, is the
\* engine's current split index at that frame: the active segment while the
\* attempt runs, none when it has not been started and once it is finished;
\* and no step other than the frame build writes the selection.
C18_SelectionMirrorsEngine ==
    [][/\ (pc = "draw" /\ pc' = "poll" /\ timer.present)
             => /\ table_state' = CurrentSplitIndex(timer)
                /\ frame'.highlighted = table_state'
                /\ timer.phase = "Running" => table_state' = Progress(timer) - 1
                /\ timer.phase \in {"NotRunning", "Ended"} => table_state' = NoIndex
       /\ table_state' # table_state => pc = "draw"]_vars

\* a frame was drawn while the second segment was active
C18_Witness ==
    /\ pc = "poll"
    /\ last.ev = "Draw"
    /\ timer.present
    /\ timer.phase = "Running"
    /\ table_state = 1
    /\ frame.highlighted = 1

----------------------------------------------------------------------------
(* C19 *)

\* C19: RunLoaded is absorbing. Once the timer is present it is present in
\* every later state, whatever event is handled (Space, a failed load, a
\* cancelled dialog, an ignored event); every frame drawn with a timer
\* present is the table, and once the table has been drawn the placeholder is
\* never drawn again.
C19_RunLoadedAbsorbing ==
    [][/\ timer.present => timer'.present
       /\ (timer.present /\ pc = "draw" /\ pc' = "poll") => frame'.view = "table"
       /\ frame.view = "table" => frame'.view = "table"]_vars

\* a load failed while a run was loaded and drawn: the run is still loaded
C19_Witness ==
    /\ pc = "draw"
    /\ last.ev = "CtrlO"
    /\ last.load = "err"
    /\ last.phase0 = "Running"
    /\ timer.present
    /\ frame.view = "table"

====
